---- MODULE Spec2Model ----
(***************************************************************************)
(* The memory subsystem of Dolla-Llama-ZerePy: VectorStore                 *)
(* (src/src/memory/store.py) and MemoryManager (src/src/memory/manager.py).*)
(*                                                                         *)
(* The embedding index (chromadb) is the environment: a collection is the  *)
(* sequence of its records in insertion order, a query ranks the records   *)
(* by an abstract distance, and any index call may raise.  Every public    *)
(* operation runs to completion (spec section 5); its arguments and its    *)
(* result are kept in `last` until the caller takes them (Return).         *)
(***************************************************************************)
EXTENDS Integers, Sequences, FiniteSets, TLC

\* ------------------------------------------------------------------ bounds
\* Memories the whole store may hold at once.
MaxMem == 2

Categories == {"a", "b"}
Contents == {"x", "y"}
Queries == {"x", "z"}
Filenames == {"f", "g"}

\* Python's None as a metadata value, and the absent optional argument.
PyNone == "<None>"
\* The empty dict.
EmptyDict == [k \in {} |-> ""]
\* The result of a call that returned no Memory.
NoMemory == [none |-> TRUE]

\* Caller metadata: nothing, or what create_chunks passes for a chunk of
\* document "f" before the first header (section_header = None,
\* manager.py:228).
MetaInputs ==
    {EmptyDict, ("original_filename" :> "f") @@ ("section_header" :> PyNone)}

\* where-filters of the index: absent, or one equality.
FilterInputs == {EmptyDict, ("original_filename" :> "f")}

\* datetime.now().isoformat(): the model keeps that the key is stamped, not
\* the instant.
Now == "ts"

\* min_similarity: float = 0.2, in thousandths
DefaultMinSimilarity == 200

Min(x, y) == IF x <= y THEN x ELSE y

Range(s) == {s[i] : i \in 1..Len(s)}

RECURSIVE SeqFilterOut(_, _)
\* the sequence s without its elements equal to x (del d[x], order kept)
SeqFilterOut(s, x) ==
    IF s = <<>> THEN <<>>
    ELSE IF Head(s) = x THEN SeqFilterOut(Tail(s), x)
    ELSE <<Head(s)>> \o SeqFilterOut(Tail(s), x)

\* ------------------------------------------------------------------- text
\* A text is the sequence of its characters.  The alphabet: a lower-case and
\* an upper-case letter, blank, line feed, full stop, hash.
Alphabet == {"a", "A", " ", "\n", ".", "#"}
Whitespace == {" ", "\n"}

RECURSIVE Str(_)
\* a text as one string value
Str(s) == IF s = <<>> THEN "" ELSE Head(s) \o Str(Tail(s))

RECURSIVE lstrip(_, _)
\* str.lstrip(chars)
lstrip(s, chars) ==
    IF s # <<>> /\ Head(s) \in chars THEN lstrip(Tail(s), chars) ELSE s

RECURSIVE rstrip(_, _)
rstrip(s, chars) ==
    IF s # <<>> /\ s[Len(s)] \in chars
    THEN rstrip(SubSeq(s, 1, Len(s) - 1), chars) ELSE s

\* str.strip()
strip(s) == rstrip(lstrip(s, Whitespace), Whitespace)

RECURSIVE splitlines(_)
\* str.splitlines(): the lines without their line feeds; a final line feed
\* opens no further line.
splitlines(text) ==
    IF text = <<>> THEN <<>>
    ELSE LET breaks == {i \in 1..Len(text) : text[i] = "\n"}
         IN IF breaks = {} THEN <<text>>
            ELSE LET i == CHOOSE b \in breaks : \A c \in breaks : b <= c
                 IN <<SubSeq(text, 1, i - 1)>>
                       \o splitlines(SubSeq(text, i + 1, Len(text)))

RECURSIVE join_lines(_)
\* '\n'.join(lines)
join_lines(lines) ==
    IF lines = <<>> THEN <<>>
    ELSE IF Len(lines) = 1 THEN lines[1]
    ELSE lines[1] \o <<"\n">> \o join_lines(Tail(lines))

\* str.isupper(): a cased character, and no lower-case one
isupper(s) ==
    /\ \E i \in 1..Len(s) : s[i] = "A"
    /\ \A i \in 1..Len(s) : s[i] # "a"

\* str.startswith(prefix)
startswith(s, prefix) ==
    Len(s) >= Len(prefix) /\ SubSeq(s, 1, Len(prefix)) = prefix

\* "Detect headers" of split_document
is_header(stripped) ==
    startswith(stripped, <<"#", " ">>) \/ (isupper(stripped) /\ Len(stripped) > 4)

\* stripped.lstrip('#').strip()
header_text(stripped) == Str(strip(lstrip(stripped, {"#"})))

RECURSIVE scan_lines(_, _, _, _)
\* the loop over text.splitlines() and the "Add final section" after it
scan_lines(lines, coarse, current_section, current_header) ==
    IF lines = <<>>
    THEN IF current_section # <<>>
         THEN Append(coarse, [header |-> current_header,
                              content |-> join_lines(current_section)])
         ELSE coarse
    ELSE LET line == Head(lines)
             stripped == strip(line)
         IN IF is_header(stripped)
            THEN scan_lines(Tail(lines),
                            IF current_section # <<>>
                            THEN Append(coarse,
                                    [header |-> current_header,
                                     content |-> join_lines(current_section)])
                            ELSE coarse,
                            <<line>>, header_text(stripped))
            ELSE scan_lines(Tail(lines), coarse,
                            Append(current_section, line), current_header)

\* split_document, "split into coarse sections based on headers"
coarse_sections(text) == scan_lines(splitlines(text), <<>>, <<>>, PyNone)

\* str.find(sub, start, end): the lowest index (from 0) at which sub lies
\* within s[start:end], or -1; a negative start or end counts from the end
\* of s, and both are clamped to 0..len(s).
find(s, sub, start, end) ==
    LET n == Len(s)
        clamp(i) == IF i > n THEN n
                    ELSE IF i >= 0 THEN i
                    ELSE IF i + n < 0 THEN 0 ELSE i + n
        hits == {i \in clamp(start)..(clamp(end) - Len(sub)) :
                    SubSeq(s, i + 1, i + Len(sub)) = sub}
    IN IF hits = {} THEN -1 ELSE CHOOSE i \in hits : \A j \in hits : i <= j

\* content[start:end] with 0 <= start and 0 <= end
slice(content, start, end) == SubSeq(content, start + 1, Min(end, Len(content)))

\* the reach of the boundary search around the chunk's end
BoundaryWindow == 50

\* Mutant of find_boundary: the search runs to the end of the content.
find_boundary_unbounded(content, sub, end) ==
    find(content, sub, end - BoundaryWindow, Len(content))

\* content.find(sub, end - 50, end + 50)
find_boundary(content, sub, end) ==
    find(content, sub, end - BoundaryWindow, end + BoundaryWindow)

\* split_document, "Find end of chunk": start + chunk_size, moved to just
\* after a full stop followed by a blank, else to a blank line, when one is
\* found in the window.
chunk_end(content, start, chunk_size, respect_boundaries) ==
    LET end == start + chunk_size
        sentence_end == find_boundary(content, <<".", " ">>, end)
        para_end == find_boundary(content, <<"\n", "\n">>, end)
    IN IF respect_boundaries /\ end < Len(content)
       THEN IF sentence_end # -1 THEN sentence_end + 1
            ELSE IF para_end # -1 THEN para_end
            ELSE end
       ELSE end

\* split_document, "Move start for next chunk, considering overlap"
next_start(end, chunk_overlap) ==
    IF end - chunk_overlap < 0 THEN 0 ELSE end - chunk_overlap

\* --------------------------------------------------------------- the state
VARIABLES
    collections,  \* VectorStore.collections: the dict's keys in insertion order
    persisted,    \* the names of the collections the persistent client holds
    docs,         \* per category, the collection's records in insertion order
    last,         \* the operation that just returned, with arguments and result
    epoch_number, \* EpochInfo.epoch_number of the manager
    split,        \* the split_document call in progress: arguments and locals
    adds,         \* per caller, its VectorStore.add call in progress
    bot           \* YouTubeConnection: _running, _polling_thread, the threads

vars == <<collections, persisted, docs, last, epoch_number, split, adds, bot>>

\* What the store's operations leave alone.
others == <<epoch_number, split, adds, bot>>

\* The callers whose add calls may interleave.
Callers == {1, 2}

\* No add call in progress.
NoAdd == [pc |-> "idle"]

\* The comment bot's threads that may be started.
MaxThreads == 2
Threads == 1..MaxThreads

\* YouTubeConnection before start_bot: no _running, no _polling_thread (0),
\* no thread started, no call made. stopped is history: the threads a
\* stop_bot has told to stop.
NoBot ==
    [running |-> FALSE, polling_thread |-> 0,
     threads |-> [t \in Threads |-> "unborn"], stopped |-> {},
     result |-> "none"]

\* No split_document call in progress.
NoSplit == [pc |-> "none"]

Idle == [op |-> "idle"]

\* The store as one value, for the operators below.
Store == [collections |-> collections, persisted |-> persisted, docs |-> docs]

TotalMem(st) ==
    LET RECURSIVE Sum(_)
        Sum(S) == IF S = {} THEN 0
                  ELSE LET c == CHOOSE c \in S : TRUE
                       IN Len(st.docs[c]) + Sum(S \ {c})
    IN Sum(Categories)

Ids(records) == {records[i].id : i \in 1..Len(records)}

\* ------------------------------------------------------------ VectorStore

\* VectorStore.list_categories
list_categories(st) == st.collections

\* VectorStore._clean_metadata on one value: None becomes "", a value that is
\* no str/int/float/bool becomes its str(); the model's other values are str.
clean_value(v) == IF v = PyNone THEN "" ELSE v

_clean_metadata(metadata) == [k \in DOMAIN metadata |-> clean_value(metadata[k])]

\* str(len(collection.get()['ids']) + 1)
memory_id(records) == ToString(Len(records) + 1)

\* VectorStore.add.  fault names the index call that raises ("none",
\* "create_collection", "get", "add"); dupRaises is what the index does with
\* an id it already holds: raise, or ignore the record without an error.
\* create_collection also raises for a name the index already holds, which
\* happens when the mapping lacks a persisted collection.
VectorStore_add(st, category, content, metadata, fault, dupRaises) ==
    LET known == category \in Range(st.collections)
        st1 == IF known THEN st
               ELSE [collections |-> Append(st.collections, category),
                     persisted |-> st.persisted \cup {category},
                     docs |-> [st.docs EXCEPT ![category] = <<>>]]
        records == st1.docs[category]
        id == memory_id(records)
    IN IF ~known /\ (fault = "create_collection" \/ category \in st.persisted)
       THEN [st |-> st, raised |-> TRUE, memory |-> NoMemory]
       ELSE IF fault = "get"
       THEN [st |-> st1, raised |-> TRUE, memory |-> NoMemory]
       ELSE IF fault = "add" \/ (id \in Ids(records) /\ dupRaises)
       THEN [st |-> st1, raised |-> TRUE, memory |-> NoMemory]
       ELSE [st |-> IF id \in Ids(records) THEN st1
                    ELSE [st1 EXCEPT !.docs[category] =
                            Append(records,
                                   [id |-> id, content |-> content,
                                    metadata |-> _clean_metadata(metadata)])],
             raised |-> FALSE,
             memory |-> [id |-> id, content |-> content,
                         category |-> category, metadata |-> metadata]]

\* VectorStore.get
VectorStore_get(st, category, id) ==
    IF category \notin Range(st.collections) THEN NoMemory
    ELSE LET records == st.docs[category]
             hit == {i \in 1..Len(records) : records[i].id = id}
         IN IF hit = {} THEN NoMemory
            ELSE LET r == records[CHOOSE i \in hit : TRUE]
                 IN [id |-> r.id, content |-> r.content,
                     category |-> category, metadata |-> r.metadata]

\* Mutant of VectorStore_delete: a category whose last memory is deleted is
\* dropped from the mapping.
VectorStore_delete_dropping(st, category, id, fault) ==
    IF category \notin Range(st.collections) THEN [st |-> st, ok |-> FALSE]
    ELSE IF fault THEN [st |-> st, ok |-> FALSE]
    ELSE LET left == SelectSeq(st.docs[category], LAMBDA r : r.id # id)
         IN [st |-> [collections |-> IF left = <<>>
                                     THEN SeqFilterOut(st.collections, category)
                                     ELSE st.collections,
                     persisted |-> st.persisted,
                     docs |-> [st.docs EXCEPT ![category] = left]],
             ok |-> TRUE]

\* VectorStore.delete: the index deletes the record with that id if it holds
\* one and returns normally either way; fault: collection.delete raises.
VectorStore_delete(st, category, id, fault) ==
    IF category \notin Range(st.collections) THEN [st |-> st, ok |-> FALSE]
    ELSE IF fault THEN [st |-> st, ok |-> FALSE]
    ELSE [st |-> [st EXCEPT !.docs[category] =
                    SelectSeq(st.docs[category], LAMBDA r : r.id # id)],
          ok |-> TRUE]

\* Mutant of update_record: an update without content clears the content.
update_record_clearing(r, content, metadata) ==
    [id |-> r.id,
     content |-> IF content # PyNone THEN content ELSE "",
     metadata |-> metadata @@ r.metadata]

\* collection.update on the record with the given id: the document is
\* replaced when one is passed, and the keys of the metadata passed are
\* written over the record's (PyNone: no document; EmptyDict: no metadata).
update_record(r, content, metadata) ==
    [id |-> r.id,
     content |-> IF content # PyNone THEN content ELSE r.content,
     metadata |-> metadata @@ r.metadata]

\* VectorStore.update.  A content or metadata that is None or empty counts as
\* not supplied ("if content:", "elif metadata:"); with neither, the index is
\* not called.  fault: collection.update raises.  An id the collection does
\* not hold is no error for the index.
VectorStore_update(st, category, id, content, metadata, fault) ==
    LET supplied == content # PyNone \/ metadata # EmptyDict
    IN IF category \notin Range(st.collections) THEN [st |-> st, ok |-> FALSE]
       ELSE IF supplied /\ fault THEN [st |-> st, ok |-> FALSE]
       ELSE [st |-> [st EXCEPT !.docs[category] =
                       [i \in 1..Len(@) |->
                           IF @[i].id = id
                           THEN update_record(@[i], content, metadata)
                           ELSE @[i]]],
             ok |-> TRUE]

\* The index's where-filter: every key of the filter is in the record's
\* metadata with that value; the absent filter matches every record.
Matches(metadata, where) ==
    \A k \in DOMAIN where : k \in DOMAIN metadata /\ metadata[k] = where[k]

\* The embedding distance of a query to a record's content (the capability
\* behind collection.query): 0 for the same text, larger for texts further
\* apart.
Distance(query, content) ==
    IF query = content THEN 0 ELSE IF query = "z" THEN 2 ELSE 1

\* math.exp(-distance), in thousandths: exp(0), exp(-1), exp(-2).
similarity_score(distance) ==
    CASE distance = 0 -> 1000
      [] distance = 1 -> 367
      [] OTHER -> 135

RECURSIVE InsertByDistance(_, _)
InsertByDistance(sorted, r) ==
    IF sorted = <<>> THEN <<r>>
    ELSE IF Head(sorted).distance <= r.distance
         THEN <<Head(sorted)>> \o InsertByDistance(Tail(sorted), r)
         ELSE <<r>> \o sorted

RECURSIVE NearestFirst(_)
NearestFirst(hits) ==
    IF hits = <<>> THEN <<>>
    ELSE InsertByDistance(NearestFirst(SubSeq(hits, 1, Len(hits) - 1)),
                          hits[Len(hits)])

\* collection.query(query_texts=[query], n_results=n, where=where): the n
\* nearest of the records that match the filter, nearest first.
collection_query(records, query, n, where) ==
    LET matching == SelectSeq(records, LAMBDA r : Matches(r.metadata, where))
        hits == [i \in 1..Len(matching) |->
                    [id |-> matching[i].id, content |-> matching[i].content,
                     metadata |-> matching[i].metadata,
                     distance |-> Distance(query, matching[i].content)]]
        ranked == NearestFirst(hits)
    IN SubSeq(ranked, 1, Min(n, Len(ranked)))

\* The try block of VectorStore.search.  fault: an index call
\* (collection.get or collection.query) raises; the index also rejects
\* n_results <= 0.  Every index call sits inside the try, whose except
\* returns [].
search_collection(st, category, query, n_results, filter_metadata, fault) ==
    LET records == st.docs[category]
        total_docs == Len(records)
        n == Min(n_results, total_docs)
    IN IF fault THEN [raised |-> FALSE, results |-> <<>>]
       ELSE IF total_docs = 0 THEN [raised |-> FALSE, results |-> <<>>]
       ELSE IF n <= 0 THEN [raised |-> FALSE, results |-> <<>>]
       ELSE LET res == collection_query(records, query, n, filter_metadata)
            IN [raised |-> FALSE,
                results |->
                    [i \in 1..Len(res) |->
                        [memory |-> [id |-> res[i].id,
                                     content |-> res[i].content,
                                     category |-> category,
                                     metadata |-> res[i].metadata],
                         similarity_score |->
                            similarity_score(res[i].distance)]]]

\* Mutant of VectorStore_search: the membership test is missing, so the
\* lookup self.collections[category] raises KeyError for an unknown category.
VectorStore_search_unguarded(st, category, query, n_results, filter_metadata, fault) ==
    IF category \notin Range(st.collections)
    THEN [raised |-> TRUE, results |-> <<>>]
    ELSE search_collection(st, category, query, n_results, filter_metadata,
                           fault)

\* VectorStore.search
VectorStore_search(st, category, query, n_results, filter_metadata, fault) ==
    IF category \notin Range(st.collections)
    THEN [raised |-> FALSE, results |-> <<>>]
    ELSE search_collection(st, category, query, n_results, filter_metadata,
                           fault)

RECURSIVE Reverse(_)
Reverse(s) == IF s = <<>> THEN <<>> ELSE Append(Reverse(Tail(s)), Head(s))

\* VectorStore.get_recent: collection.get(where, limit) gives the first
\* `limit` matching records in insertion order; the method reverses them.
\* fault: collection.get raises, and nothing here catches it.
VectorStore_get_recent(st, category, n_results, filter_metadata, fault) ==
    IF category \notin Range(st.collections)
    THEN [raised |-> FALSE, memories |-> <<>>]
    ELSE IF fault THEN [raised |-> TRUE, memories |-> <<>>]
    ELSE LET matching == SelectSeq(st.docs[category],
                            LAMBDA r : Matches(r.metadata, filter_metadata))
             got == SubSeq(matching, 1, Min(n_results, Len(matching)))
         IN [raised |-> FALSE,
             memories |-> Reverse([i \in 1..Len(got) |->
                            [id |-> got[i].id, content |-> got[i].content,
                             category |-> category,
                             metadata |-> got[i].metadata]])]

RECURSIVE SetToSeq(_)
\* the names of a set in the order the index lists them
SetToSeq(S) ==
    IF S = {} THEN <<>>
    ELSE LET x == CHOOSE y \in S : TRUE IN <<x>> \o SetToSeq(S \ {x})

\* VectorStore.__init__ over the database a previous instance left: the
\* mapping is rebuilt from client.list_collections().  listFails: that call
\* raises, and the mapping stays empty; failing: the names whose
\* get_collection raises, which are skipped.
VectorStore_init(st, listFails, failing) ==
    [collections |-> IF listFails THEN <<>>
                     ELSE SelectSeq(SetToSeq(st.persisted),
                                    LAMBDA name : name \notin failing),
     persisted |-> st.persisted,
     docs |-> st.docs]

\* ---------------------------------------------------------- MemoryManager

\* MemoryManager.create: metadata = metadata or {}; metadata.update(timestamp)
MemoryManager_create(st, category, content, metadata, fault, dupRaises) ==
    VectorStore_add(st, category, content,
                    ("timestamp" :> Now) @@ metadata, fault, dupRaises)

\* MemoryManager.list_categories
MemoryManager_list_categories(st) == list_categories(st)

\* The category argument of MemoryManager.search: absent, a name, or a list.
NoCategory == [kind |-> "none"]
OneCategory(c) == [kind |-> "name", name |-> c]
ListOfCategories(cs) == [kind |-> "list", names |-> cs]

\* Mutant of resolve_categories: the category argument is ignored.
resolve_categories_ignoring(available_categories, category) ==
    available_categories

\* MemoryManager.search, "Determine categories to search"
resolve_categories(available_categories, category) ==
    IF category.kind = "none" THEN available_categories
    ELSE IF category.kind = "name"
         THEN IF category.name \in Range(available_categories)
              THEN <<category.name>> ELSE <<>>
    ELSE SelectSeq(category.names,
                   LAMBDA cat : cat \in Range(available_categories))

RECURSIVE InsertBySimilarity(_, _)
InsertBySimilarity(sorted, r) ==
    IF sorted = <<>> THEN <<r>>
    ELSE IF Head(sorted).similarity_score >= r.similarity_score
         THEN <<Head(sorted)>> \o InsertBySimilarity(Tail(sorted), r)
         ELSE <<r>> \o sorted

RECURSIVE InsertBySimilarityAscending(_, _)
InsertBySimilarityAscending(sorted, r) ==
    IF sorted = <<>> THEN <<r>>
    ELSE IF Head(sorted).similarity_score <= r.similarity_score
         THEN <<Head(sorted)>> \o InsertBySimilarityAscending(Tail(sorted), r)
         ELSE <<r>> \o sorted

RECURSIVE sort_by_similarity_ascending(_)
\* Mutant of sort_by_similarity: reverse=True is missing.
sort_by_similarity_ascending(results) ==
    IF results = <<>> THEN <<>>
    ELSE InsertBySimilarityAscending(
            sort_by_similarity_ascending(SubSeq(results, 1, Len(results) - 1)),
            results[Len(results)])

RECURSIVE sort_by_similarity(_)
\* results.sort(key=lambda x: x.similarity_score, reverse=True): stable
sort_by_similarity(results) ==
    IF results = <<>> THEN <<>>
    ELSE InsertBySimilarity(
            sort_by_similarity(SubSeq(results, 1, Len(results) - 1)),
            results[Len(results)])

RECURSIVE search_each(_, _, _, _, _, _)
\* the loop "for cat in categories: results.extend(self.store.search(...))";
\* an exception out of store.search would end it.
search_each(st, categories, query, n_results, filter_metadata, failing) ==
    IF categories = <<>> THEN [raised |-> FALSE, results |-> <<>>]
    ELSE LET cat == Head(categories)
             cat_results ==
                IF cat \in Range(st.collections)
                THEN VectorStore_search(st, cat, query, n_results,
                                        filter_metadata, cat \in failing)
                ELSE [raised |-> FALSE, results |-> <<>>]
             rest == search_each(st, Tail(categories), query, n_results,
                                 filter_metadata, failing)
         IN IF cat_results.raised THEN [raised |-> TRUE, results |-> <<>>]
            ELSE [raised |-> rest.raised,
                  results |-> IF rest.raised THEN <<>>
                              ELSE cat_results.results \o rest.results]

\* [result for result in results if result.similarity_score > min_similarity]
filter_by_similarity(results, min_similarity) ==
    SelectSeq(results, LAMBDA r : r.similarity_score > min_similarity)

\* filtered_results[:n_results], n_results >= 0
first_n(results, n_results) ==
    SubSeq(results, 1, Min(n_results, Len(results)))

\* MemoryManager.search.  failing: the categories whose index call raises.
MemoryManager_search(st, query, category, n_results, min_similarity, filter_metadata, failing) ==
    LET available_categories == MemoryManager_list_categories(st)
    IN IF available_categories = <<>>
       THEN [raised |-> FALSE, results |-> <<>>]
       ELSE LET categories == resolve_categories(available_categories,
                                                 category)
                found == search_each(st, categories, query, n_results,
                                     filter_metadata, failing)
                filtered_results ==
                    filter_by_similarity(sort_by_similarity(found.results),
                                         min_similarity)
            IN IF found.raised THEN found
               ELSE [raised |-> FALSE,
                     results |-> first_n(filtered_results, n_results)]

\* Mutant of str_split: str.split(" "), which cuts at every single blank and
\* keeps the empty pieces.
RECURSIVE str_split_at_each_blank(_)
str_split_at_each_blank(s) ==
    LET blanks == {i \in 1..Len(s) : s[i] = " "}
        k == CHOOSE i \in blanks : \A j \in blanks : i <= j
    IN IF blanks = {} THEN <<s>>
       ELSE <<SubSeq(s, 1, k - 1)>> \o str_split_at_each_blank(SubSeq(s, k + 1, Len(s)))

RECURSIVE str_split(_)
\* str.split(): the maximal runs of characters that are not whitespace
str_split(s) ==
    LET t == lstrip(s, Whitespace)
        ws == {i \in 1..Len(t) : t[i] \in Whitespace}
        k == IF ws = {} THEN Len(t) + 1
             ELSE CHOOSE i \in ws : \A j \in ws : i <= j
    IN IF t = <<>> THEN <<>>
       ELSE <<SubSeq(t, 1, k - 1)>> \o str_split(SubSeq(t, k, Len(t)))

\* "len(query.split()) <= 3  # Basic complexity check"
MinQueryTokens == 3

\* result.memory.metadata.get('source', 'reference')
source_of(memory) ==
    IF "source" \in DOMAIN memory.metadata THEN memory.metadata["source"]
    ELSE "reference"

RECURSIVE join_context(_)
\* "\n\n".join(f"From {source}:\n{content}" for result in results)
join_context(results) ==
    IF results = <<>> THEN ""
    ELSE LET piece == "From " \o source_of(Head(results).memory) \o ":\n"
                      \o Head(results).memory.content
         IN IF Tail(results) = <<>> THEN piece
            ELSE piece \o "\n\n" \o join_context(Tail(results))

\* MemoryManager.get_relevant_context; searched: self.search was called.
MemoryManager_get_relevant_context(st, query, n_results) ==
    IF Len(str_split(query)) <= MinQueryTokens
    THEN [context |-> "", results |-> <<>>, searched |-> FALSE]
    ELSE LET results == MemoryManager_search(st, Str(query), NoCategory,
                                             n_results, DefaultMinSimilarity,
                                             EmptyDict, {}).results
         IN [context |-> join_context(results), results |-> results,
             searched |-> TRUE]

\* Mutant of MemoryManager_get_memories: the store's method is reached (as if
\* it were named get_memories); an exception of the index is still caught.
get_memories_from_get_recent(st, category, n_results, filter_metadata) ==
    VectorStore_get_recent(st, category, n_results, filter_metadata,
                           FALSE).memories

\* MemoryManager.get_memories calls self.store.get_memories, a method that
\* VectorStore does not define (its method is get_recent): the call raises
\* AttributeError inside the try, and the except returns [].
MemoryManager_get_memories(st, category, n_results, filter_metadata) ==
    <<>>

\* The filenames of the memories in order of first appearance
\* (the keys of the defaultdict of get_category_stats).
doc_filename(memory) ==
    IF "original_filename" \in DOMAIN memory.metadata
    THEN memory.metadata["original_filename"] ELSE "Unknown source"

RECURSIVE doc_keys(_)
doc_keys(memories) ==
    IF memories = <<>> THEN <<>>
    ELSE LET rest == doc_keys(SubSeq(memories, 1, Len(memories) - 1))
             f == doc_filename(memories[Len(memories)])
         IN IF f \in Range(rest) THEN rest ELSE Append(rest, f)

RECURSIVE total_size(_)
\* sum(len(chunk.content) for chunk in chunks)
total_size(chunks) ==
    IF chunks = <<>> THEN 0
    ELSE Len(Head(chunks).content) + total_size(Tail(chunks))

NoStats == [document_count |-> 0, total_chunks |-> 0, documents |-> <<>>]

\* MemoryManager.get_category_stats
MemoryManager_get_category_stats(st, category) ==
    IF category \notin Range(st.collections) THEN NoStats
    ELSE LET memories == MemoryManager_get_memories(st, category, 1000,
                                                    EmptyDict)
         IN IF memories = <<>> THEN NoStats
            ELSE LET keys == doc_keys(memories)
                     chunks(f) == SelectSeq(memories,
                                     LAMBDA m : doc_filename(m) = f)
                 IN [document_count |-> Len(keys),
                     total_chunks |-> Len(memories),
                     documents |->
                        [i \in 1..Len(keys) |->
                            [filename |-> keys[i],
                             chunk_count |-> Len(chunks(keys[i])),
                             total_size |-> total_size(chunks(keys[i]))]]]

\* MemoryManager.delete_memory
MemoryManager_delete_memory(st, category, id, fault) ==
    VectorStore_delete(st, category, id, fault)

\* MemoryManager.remove_category.  fault: client.delete_collection raises.
\* The result is True, False (the except), or None: a category that is not
\* in the mapping falls through both branches.
MemoryManager_remove_category(st, category, fault) ==
    IF category \notin Range(st.collections) THEN [st |-> st, ret |-> "None"]
    ELSE IF fault THEN [st |-> st, ret |-> "False"]
    ELSE [st |-> [collections |-> SeqFilterOut(st.collections, category),
                  persisted |-> st.persisted \ {category},
                  docs |-> [st.docs EXCEPT ![category] = <<>>]],
          ret |-> "True"]

RECURSIVE wipe_each(_, _, _, _, _)
\* the loop of wipe_document over the memories it fetched; failing: the ids
\* whose collection.delete raises.
wipe_each(st, category, filename, memories, failing) ==
    IF memories = <<>> THEN [st |-> st, chunks_deleted |-> 0]
    ELSE LET memory == Head(memories)
             hit == "original_filename" \in DOMAIN memory.metadata
                    /\ memory.metadata["original_filename"] = filename
             d == IF hit
                  THEN MemoryManager_delete_memory(st, category, memory.id,
                                                   memory.id \in failing)
                  ELSE [st |-> st, ok |-> FALSE]
             rest == wipe_each(d.st, category, filename, Tail(memories),
                               failing)
         IN [st |-> rest.st,
             chunks_deleted |-> (IF d.ok THEN 1 ELSE 0) + rest.chunks_deleted]

\* MemoryManager.wipe_document
MemoryManager_wipe_document(st, category, filename, failing) ==
    wipe_each(st, category, filename,
              MemoryManager_get_memories(st, category, 1000, EmptyDict),
              failing)

\* MemoryManager.wipe_category
MemoryManager_wipe_category(st, category, fault) ==
    LET stats == MemoryManager_get_category_stats(st, category)
        r == MemoryManager_remove_category(st, category, fault)
    IN [st |-> r.st, success |-> r.ret,
        documents_deleted |-> stats.document_count,
        chunks_deleted |-> stats.total_chunks]

\* Mutant of remove_each: the loop ends after its first category.
remove_each_first_only(st, categories, failing) ==
    IF categories = <<>> THEN st
    ELSE MemoryManager_remove_category(
            st, Head(categories), Head(categories) \in failing).st

RECURSIVE remove_each(_, _, _)
remove_each(st, categories, failing) ==
    IF categories = <<>> THEN st
    ELSE remove_each(MemoryManager_remove_category(
                        st, Head(categories), Head(categories) \in failing).st,
                     Tail(categories), failing)

\* MemoryManager.wipe_all_memories.  failing: the categories whose
\* delete_collection raises; remove_category catches it, so the loop never
\* sees an exception and the method returns True.
MemoryManager_wipe_all_memories(st, failing) ==
    [st |-> remove_each(st, MemoryManager_list_categories(st), failing),
     ret |-> TRUE]

\* -------------------------------------------------------- document upload
\* chunk_size: int = 500 and chunk_overlap: int = 100 of split_document
DefaultChunkSize == 500
DefaultChunkOverlap == 100

\* split_document on a text whose coarse sections all have at most
\* chunk_size characters: each is kept as one chunk, stripped.
split_document_short(text, chunk_size) ==
    LET coarse == coarse_sections(text)
    IN [i \in 1..Len(coarse) |->
            [header |-> coarse[i].header, content |-> strip(coarse[i].content)]]

\* bool(re.search(r'<fence>.*<fence>', content, re.DOTALL)), a fence being
\* three backquotes
\* (Backtick stands for the backquote character.)
Backtick == "bq"
has_code(content) ==
    LET fence(i) == i + 2 <= Len(content)
                    /\ \A k \in i..(i + 2) : content[k] = Backtick
    IN \E i, j \in 1..Len(content) : fence(i) /\ fence(j) /\ i + 3 <= j

\* The files of a batch: a path that does not exist, a text of one section,
\* a text of two sections (the second under a "# " header).  ext is
\* Path(file_path).suffix[1:].lower().
FileInputs ==
    {[path |-> "missing.txt", ext |-> "txt", exists |-> FALSE, text |-> <<>>],
     [path |-> "f.txt", ext |-> "txt", exists |-> TRUE, text |-> <<"a">>],
     [path |-> "g.md", ext |-> "md", exists |-> TRUE,
      text |-> <<"a", "\n", "#", " ", "A">>]}

\* Metadata values are kept in their printed form.
PyBool(b) == IF b THEN "True" ELSE "False"

RECURSIVE create_each(_, _, _, _, _, _, _)
\* the loop of create_chunks over the sections; calls counts the create
\* calls made so far in the batch, and the failAt-th of them has its index
\* add raise (0: none does).
create_each(st, category, sections, i, base_metadata, calls, failAt) ==
    IF i > Len(sections)
    THEN [st |-> st, raised |-> FALSE, memory_ids |-> <<>>, calls |-> calls]
    ELSE LET section == sections[i]
             section_metadata ==
                ("chunk_index" :> ToString(i - 1))
                @@ ("chunks_total" :> ToString(Len(sections)))
                @@ ("section_header" :> section.header)
                @@ ("chunk_size" :> ToString(Len(section.content)))
                @@ ("has_code" :> PyBool(has_code(section.content)))
                @@ base_metadata
             r == MemoryManager_create(
                    st, category, Str(section.content), section_metadata,
                    IF calls + 1 = failAt THEN "add" ELSE "none", TRUE)
         IN IF r.raised
            THEN [st |-> r.st, raised |-> TRUE, memory_ids |-> <<>>,
                  calls |-> calls + 1]
            ELSE LET rest == create_each(r.st, category, sections, i + 1,
                                         base_metadata, calls + 1, failAt)
                 IN [st |-> rest.st, raised |-> rest.raised,
                     memory_ids |-> IF rest.raised THEN <<>>
                                    ELSE <<r.memory.id>> \o rest.memory_ids,
                     calls |-> rest.calls]

\* MemoryManager.create_chunks for a text file (the PDF branch is not
\* modelled).  Opening a path that does not exist raises FileNotFoundError.
MemoryManager_create_chunks(st, file, category, metadata, calls, failAt) ==
    IF ~file.exists
    THEN [st |-> st, raised |-> TRUE, memory_ids |-> <<>>, calls |-> calls]
    ELSE create_each(st, category,
                     split_document_short(file.text, DefaultChunkSize), 1,
                     metadata @@ ("source" :> file.path)
                              @@ ("document_type" :> file.ext),
                     calls, failAt)

\* Mutant of upload_each: a file that fails ends the loop.
upload_each_aborting(st, files, category, calls, failAt) ==
    IF files = <<>>
    THEN [st |-> st, successful |-> 0, failed |-> 0, total_chunks |-> 0]
    ELSE LET r == MemoryManager_create_chunks(
                    st, Head(files), category,
                    ("type" :> "document")
                    @@ ("original_filename" :> Head(files).path)
                    @@ ("upload_timestamp" :> Now),
                    calls, failAt)
         IN [st |-> r.st,
             successful |-> IF r.raised THEN 0 ELSE 1,
             failed |-> IF r.raised THEN 1 ELSE 0,
             total_chunks |-> Len(r.memory_ids)]

RECURSIVE upload_each(_, _, _, _, _)
\* the loop of upload_documents over the file paths
upload_each(st, files, category, calls, failAt) ==
    IF files = <<>>
    THEN [st |-> st, successful |-> 0, failed |-> 0, total_chunks |-> 0]
    ELSE LET r == MemoryManager_create_chunks(
                    st, Head(files), category,
                    ("type" :> "document")
                    @@ ("original_filename" :> Head(files).path)
                    @@ ("upload_timestamp" :> Now),
                    calls, failAt)
             rest == upload_each(r.st, Tail(files), category, r.calls, failAt)
         IN [st |-> rest.st,
             successful |-> (IF r.raised THEN 0 ELSE 1) + rest.successful,
             failed |-> (IF r.raised THEN 1 ELSE 0) + rest.failed,
             total_chunks |-> Len(r.memory_ids) + rest.total_chunks]

\* MemoryManager.upload_documents: both except clauses count the file as
\* failed, so no exception of a file leaves the method.
MemoryManager_upload_documents(st, files, category, failAt) ==
    LET r == upload_each(st, files, category, 0, failAt)
    IN [st |-> r.st, raised |-> FALSE,
        counts |-> [total_attempted |-> Len(files),
                    successful |-> r.successful, failed |-> r.failed,
                    total_chunks |-> r.total_chunks]]

\* ---------------------------------------------------------------- actions
Init ==
    /\ collections = <<>>
    /\ persisted = {}
    /\ docs = [c \in Categories |-> <<>>]
    /\ last = Idle
    /\ epoch_number = 1
    /\ split = NoSplit
    /\ adds = [t \in Callers |-> NoAdd]
    /\ bot = NoBot

Create(category, content, metadata, fault, dupRaises) ==
    /\ last = Idle
    /\ UNCHANGED others
    /\ TotalMem(Store) < MaxMem
    /\ LET r == MemoryManager_create(Store, category, content, metadata,
                                     fault, dupRaises)
       IN /\ collections' = r.st.collections
          /\ persisted' = r.st.persisted
          /\ docs' = r.st.docs
          /\ last' = [op |-> "create", category |-> category,
                      content |-> content, metadata |-> metadata,
                      raised |-> r.raised, memory |-> r.memory,
                      pre |-> docs[category],
                      preCategories |-> collections]

DeleteMemory(category, id, fault) ==
    /\ last = Idle
    /\ UNCHANGED others
    /\ LET r == MemoryManager_delete_memory(Store, category, id, fault)
       IN /\ collections' = r.st.collections
          /\ persisted' = r.st.persisted
          /\ docs' = r.st.docs
          /\ last' = [op |-> "delete_memory", category |-> category,
                      id |-> id, ok |-> r.ok, pre |-> docs[category],
                      preCategories |-> collections]

Search(query, category, n_results, min_similarity, filter_metadata, failing) ==
    /\ last = Idle
    /\ UNCHANGED others
    /\ LET r == MemoryManager_search(Store, query, category, n_results,
                                     min_similarity, filter_metadata, failing)
       IN last' = [op |-> "search", category |-> category,
                   n_results |-> n_results,
                   min_similarity |-> min_similarity,
                   filter_metadata |-> filter_metadata,
                   raised |-> r.raised, results |-> r.results]
    /\ UNCHANGED <<collections, persisted, docs>>

\* VectorStore.search called directly
StoreSearch(category, query, n_results, filter_metadata, fault) ==
    /\ last = Idle
    /\ UNCHANGED others
    /\ LET r == VectorStore_search(Store, category, query, n_results,
                                   filter_metadata, fault)
       IN last' = [op |-> "store_search", category |-> category,
                   n_results |-> n_results, fault |-> fault,
                   raised |-> r.raised, results |-> r.results]
    /\ UNCHANGED <<collections, persisted, docs>>

\* What an update may supply: no content or a text; no metadata or a mapping.
UpdateContents == {PyNone} \cup Contents
UpdateMetadata == {EmptyDict, ("original_filename" :> "f") @@ ("section_header" :> "")}

Update(category, id, content, metadata, fault) ==
    /\ last = Idle
    /\ UNCHANGED others
    /\ LET r == VectorStore_update(Store, category, id, content, metadata, fault)
       IN /\ docs' = r.st.docs
          /\ last' = [op |-> "update", category |-> category, id |-> id,
                      content |-> content, metadata |-> metadata,
                      fault |-> fault, ok |-> r.ok, preDocs |-> docs,
                      preCategories |-> collections]
    /\ UNCHANGED <<collections, persisted>>

StoreGetRecent(category, n_results, filter_metadata, fault) ==
    /\ last = Idle
    /\ UNCHANGED others
    /\ LET r == VectorStore_get_recent(Store, category, n_results,
                                       filter_metadata, fault)
       IN last' = [op |-> "get_recent", category |-> category,
                   n_results |-> n_results, fault |-> fault,
                   raised |-> r.raised, memories |-> r.memories]
    /\ UNCHANGED <<collections, persisted, docs>>

GetCategoryStats(category) ==
    /\ last = Idle
    /\ UNCHANGED others
    /\ last' = [op |-> "get_category_stats", category |-> category,
                stats |-> MemoryManager_get_category_stats(Store, category)]
    /\ UNCHANGED <<collections, persisted, docs>>

WipeDocument(category, filename, failing) ==
    /\ last = Idle
    /\ UNCHANGED others
    /\ LET r == MemoryManager_wipe_document(Store, category, filename, failing)
       IN /\ docs' = r.st.docs
          /\ last' = [op |-> "wipe_document", category |-> category,
                      filename |-> filename,
                      chunks_deleted |-> r.chunks_deleted,
                      pre |-> docs[category]]
    /\ UNCHANGED <<collections, persisted>>

RemoveCategory(category, fault) ==
    /\ last = Idle
    /\ UNCHANGED others
    /\ LET r == MemoryManager_remove_category(Store, category, fault)
       IN /\ collections' = r.st.collections
          /\ persisted' = r.st.persisted
          /\ docs' = r.st.docs
          /\ last' = [op |-> "remove_category", category |-> category,
                      ret |-> r.ret, preCategories |-> collections]

WipeCategory(category, fault) ==
    /\ last = Idle
    /\ UNCHANGED others
    /\ LET r == MemoryManager_wipe_category(Store, category, fault)
       IN /\ collections' = r.st.collections
          /\ persisted' = r.st.persisted
          /\ docs' = r.st.docs
          /\ last' = [op |-> "wipe_category", category |-> category,
                      success |-> r.success,
                      documents_deleted |-> r.documents_deleted,
                      chunks_deleted |-> r.chunks_deleted,
                      pre |-> docs[category]]

WipeAllMemories(failing) ==
    /\ last = Idle
    /\ UNCHANGED others
    /\ LET r == MemoryManager_wipe_all_memories(Store, failing)
       IN /\ collections' = r.st.collections
          /\ persisted' = r.st.persisted
          /\ docs' = r.st.docs
          /\ last' = [op |-> "wipe_all_memories", ret |-> r.ret,
                      preCategories |-> collections,
                      raised_for |-> failing \cap Range(collections)]

\* The caller takes the result; the next operation may start.
Return ==
    /\ last # Idle
    /\ UNCHANGED others
    /\ last' = Idle
    /\ UNCHANGED <<collections, persisted, docs>>

\* The ids a caller may name: those the store can have assigned.
IdInputs == {ToString(i) : i \in 1..MaxMem}

\* The category argument: absent, a name, or a list (here out of the
\* mapping's order and naming a category twice).
CategoryInputs ==
    {NoCategory} \cup {OneCategory(c) : c \in Categories}
                 \cup {ListOfCategories(<<"b", "a", "b">>)}

\* Which categories' index calls raise during one search.
FailingInputs == {{}, {"a"}}

\* min_similarity: the default 0.2, and exp(-1) itself (in thousandths).
SimilarityInputs == {DefaultMinSimilarity, 367}

Next ==
    \/ /\ last = Idle
       /\ \E c \in Categories, x \in Contents, m \in MetaInputs,
             fault \in {"none", "create_collection", "get", "add"},
             dupRaises \in BOOLEAN :
             Create(c, x, m, fault, dupRaises)
    \/ /\ last = Idle
       /\ \E c \in Categories, id \in IdInputs, fault \in BOOLEAN :
             DeleteMemory(c, id, fault)
    \/ /\ last = Idle
       /\ \E q \in Queries, c \in CategoryInputs, n \in 0..MaxMem,
             s \in SimilarityInputs :
             Search(q, c, n, s, EmptyDict, {})
    \/ /\ last = Idle
       /\ \E c \in CategoryInputs, n \in 0..MaxMem, f \in FilterInputs,
             failing \in FailingInputs :
             Search("x", c, n, DefaultMinSimilarity, f, failing)
    \/ /\ last = Idle
       /\ \E c \in Categories, q \in Queries, n \in 0..MaxMem, f \in FilterInputs,
             fault \in BOOLEAN :
             StoreSearch(c, q, n, f, fault)
    \/ /\ last = Idle
       /\ \E c \in Categories, n \in 1..MaxMem, fault \in BOOLEAN :
             StoreGetRecent(c, n, EmptyDict, fault)
    \/ /\ last = Idle
       /\ \E c \in Categories, id \in IdInputs, x \in UpdateContents,
             m \in UpdateMetadata :
             Update(c, id, x, m, FALSE)
    \/ /\ last = Idle
       /\ \E c \in Categories, m \in UpdateMetadata : Update(c, "1", PyNone, m, TRUE)
    \/ /\ last = Idle
       /\ \E c \in Categories : GetCategoryStats(c)
    \/ /\ last = Idle
       /\ \E c \in Categories, f \in Filenames, failing \in {{}, {"1"}} :
             WipeDocument(c, f, failing)
    \/ /\ last = Idle
       /\ \E c \in Categories, fault \in BOOLEAN : RemoveCategory(c, fault)
    \/ /\ last = Idle
       /\ \E c \in Categories, fault \in BOOLEAN : WipeCategory(c, fault)
    \/ /\ last = Idle
       /\ \E failing \in SUBSET Categories : WipeAllMemories(failing)
    \/ Return

Spec == Init /\ [][Next]_vars

\* ------------------------------------------------------ relevant context
\* The longest query.
MaxQueryLen == 7

\* Queries of words "a", "aa", ... separated by blanks.
QueryInputs == UNION {[1..n -> {"a", " "}] : n \in 0..MaxQueryLen}

GetRelevantContext(query, n_results) ==
    /\ last = Idle
    /\ UNCHANGED others
    /\ LET r == MemoryManager_get_relevant_context(Store, query, n_results)
       IN last' = [op |-> "get_relevant_context", query |-> query,
                   n_results |-> n_results, context |-> r.context,
                   results |-> r.results, searched |-> r.searched]
    /\ UNCHANGED <<collections, persisted, docs>>

\* Creations, with and without a source in the metadata, and context queries.
NextContext ==
    \/ /\ last = Idle
       /\ \E c \in Categories, m \in {EmptyDict, "source" :> "f.txt"} :
             Create(c, "x", m, "none", TRUE)
    \/ /\ last = Idle
       /\ \E query \in QueryInputs, n \in 1..MaxMem :
             GetRelevantContext(query, n)
    \/ Return

SpecContext == Init /\ [][NextContext]_vars

\* ---------------------------------------------------- interleaved creates
\* VectorStore.add, statement by statement, for callers that share the
\* store; no index call fails by itself.

\* A caller enters create -> add.
CallAdd(t, category, content) ==
    /\ last = Idle
    /\ adds[t] = NoAdd
    /\ TotalMem(Store) + Cardinality({u \in Callers : adds[u] # NoAdd}) < MaxMem
    /\ adds' = [adds EXCEPT ![t] = [pc |-> "check", category |-> category,
                                    content |-> content, id |-> ""]]
    /\ UNCHANGED <<collections, persisted, docs, last, epoch_number, split, bot>>

\* "if category not in self.collections:"
AddCheck(t) ==
    /\ adds[t].pc = "check"
    /\ adds' = [adds EXCEPT ![t].pc =
                  IF adds[t].category \in Range(collections) THEN "count"
                  ELSE "create_collection"]
    /\ UNCHANGED <<collections, persisted, docs, last, epoch_number, split, bot>>

\* "self.collections[category] = self.client.create_collection(...)": the
\* index raises for a name it already holds, and nothing catches it.
AddCreateCollection(t) ==
    /\ adds[t].pc = "create_collection"
    /\ IF adds[t].category \in persisted
       THEN /\ adds' = [adds EXCEPT ![t].pc = "raised"]
            /\ UNCHANGED <<collections, persisted>>
       ELSE /\ adds' = [adds EXCEPT ![t].pc = "count"]
            /\ persisted' = persisted \cup {adds[t].category}
            /\ collections' =
                  IF adds[t].category \in Range(collections) THEN collections
                  ELSE Append(collections, adds[t].category)
    /\ UNCHANGED <<docs, last, epoch_number, split, bot>>

\* "memory_id = str(len(collection.get()['ids']) + 1)"
AddCount(t) ==
    /\ adds[t].pc = "count"
    /\ adds' = [adds EXCEPT ![t].pc = "add",
                            ![t].id = memory_id(docs[adds[t].category])]
    /\ UNCHANGED <<collections, persisted, docs, last, epoch_number, split, bot>>

\* "collection.add(...)": for an id the collection already holds the index
\* raises (dupRaises) or ignores the record.
AddInsert(t, dupRaises) ==
    /\ adds[t].pc = "add"
    /\ LET records == docs[adds[t].category]
       IN IF adds[t].id \in Ids(records)
          THEN /\ adds' = [adds EXCEPT ![t].pc =
                             IF dupRaises THEN "raised" ELSE "done"]
               /\ UNCHANGED docs
          ELSE /\ adds' = [adds EXCEPT ![t].pc = "done"]
               /\ docs' = [docs EXCEPT ![adds[t].category] =
                             Append(records,
                                    [id |-> adds[t].id,
                                     content |-> adds[t].content,
                                     metadata |-> _clean_metadata("timestamp" :> Now)])]
    /\ UNCHANGED <<collections, persisted, last, epoch_number, split, bot>>

\* The call returns its Memory, or the exception reaches the caller.
AddReturn(t) ==
    /\ adds[t].pc \in {"done", "raised"}
    /\ adds' = [adds EXCEPT ![t] = NoAdd]
    /\ UNCHANGED <<collections, persisted, docs, last, epoch_number, split, bot>>

NextInterleaved ==
    \/ \E t \in Callers, c \in Categories, x \in Contents : CallAdd(t, c, x)
    \/ \E t \in Callers : AddCheck(t)
    \/ \E t \in Callers : AddCreateCollection(t)
    \/ \E t \in Callers : AddCount(t)
    \/ \E t \in Callers, dupRaises \in BOOLEAN : AddInsert(t, dupRaises)
    \/ \E t \in Callers : AddReturn(t)

SpecInterleaved == Init /\ [][NextInterleaved]_vars

\* ------------------------------------------------------ YouTube comment bot
\* start_bot and stop_bot are called one after the other by the agent; the
\* polling threads run between them.

\* Thread.is_alive(): started and not yet returned from poll_comments.
is_alive(t) == bot.threads[t] \in {"test", "poll", "sleep"}

\* start_bot: refuses while the recorded thread is alive; otherwise sets
\* _running, records a new thread and starts it. When the thread cannot be
\* started (fails) the except clause clears _running.
StartBot(t, fails) ==
    /\ ~is_alive(t)
    /\ ~(bot.polling_thread # 0 /\ is_alive(bot.polling_thread))
    /\ bot' = [bot EXCEPT !.running = ~fails,
                          !.polling_thread = t,
                          !.threads[t] = IF fails THEN @ ELSE "test",
                          !.stopped = @ \ {t},
                          !.result = PyBool(~fails)]
    /\ UNCHANGED <<collections, persisted, docs, last, epoch_number, split, adds>>

\* start_bot while the recorded thread is alive: returns False, no change.
StartBotRefused ==
    /\ bot.polling_thread # 0 /\ is_alive(bot.polling_thread)
    /\ bot' = [bot EXCEPT !.result = PyBool(FALSE)]
    /\ UNCHANGED <<collections, persisted, docs, last, epoch_number, split, adds>>

\* stop_bot while running: clears _running and forgets the thread without
\* joining it.
StopBot ==
    /\ bot.running
    /\ bot' = [bot EXCEPT !.running = FALSE,
                          !.polling_thread = 0,
                          !.stopped = @ \cup {t \in Threads : is_alive(t)},
                          !.result = PyBool(TRUE)]
    /\ UNCHANGED <<collections, persisted, docs, last, epoch_number, split, adds>>

\* stop_bot while not running: returns False, no change.
StopBotRefused ==
    /\ ~bot.running
    /\ bot' = [bot EXCEPT !.result = PyBool(FALSE)]
    /\ UNCHANGED <<collections, persisted, docs, last, epoch_number, split, adds>>

\* "while hasattr(self, '_running') and self._running:"
ThreadTest(t) ==
    /\ bot.threads[t] = "test"
    /\ bot' = [bot EXCEPT !.threads[t] = IF bot.running THEN "poll" ELSE "dead"]
    /\ UNCHANGED <<collections, persisted, docs, last, epoch_number, split, adds>>

\* One cycle: get_recent_comments and reply_to_comment for each; an
\* exception is logged. Either way the thread goes to sleep.
ThreadPoll(t) ==
    /\ bot.threads[t] = "poll"
    /\ bot' = [bot EXCEPT !.threads[t] = "sleep"]
    /\ UNCHANGED <<collections, persisted, docs, last, epoch_number, split, adds>>

\* time.sleep(60) returns.
ThreadWake(t) ==
    /\ bot.threads[t] = "sleep"
    /\ bot' = [bot EXCEPT !.threads[t] = "test"]
    /\ UNCHANGED <<collections, persisted, docs, last, epoch_number, split, adds>>

NextBot ==
    \/ \E t \in Threads, fails \in BOOLEAN : StartBot(t, fails)
    \/ StartBotRefused
    \/ StopBot
    \/ StopBotRefused
    \/ \E t \in Threads : ThreadTest(t)
    \/ \E t \in Threads : ThreadPoll(t)
    \/ \E t \in Threads : ThreadWake(t)

SpecBot == Init /\ [][NextBot]_vars

\* ------------------------------------------------------- fan-out search
\* MemoryManager.search with no failing index call; the query is kept with
\* the result.
SearchQuery(query, category, n_results, min_similarity, filter_metadata) ==
    /\ last = Idle
    /\ UNCHANGED others
    /\ LET r == MemoryManager_search(Store, query, category, n_results,
                                     min_similarity, filter_metadata, {})
       IN last' = [op |-> "search_query", query |-> query,
                   category |-> category, n_results |-> n_results,
                   min_similarity |-> min_similarity,
                   filter_metadata |-> filter_metadata,
                   raised |-> r.raised, results |-> r.results]
    /\ UNCHANGED <<collections, persisted, docs>>

NextSearch ==
    \/ /\ last = Idle
       /\ \E c \in Categories, x \in Contents, m \in MetaInputs :
             Create(c, x, m, "none", TRUE)
    \/ /\ last = Idle
       /\ \E q \in Queries, c \in CategoryInputs, n \in 0..MaxMem,
             s \in SimilarityInputs, f \in FilterInputs :
             SearchQuery(q, c, n, s, f)
    \/ Return

SpecSearch == Init /\ [][NextSearch]_vars

\* ----------------------------------------------------------- failing adds
\* Creations whose only failing index call is collection.add (raising by
\* itself or for an id the collection already holds), and deletions.
NextCreate ==
    \/ /\ last = Idle
       /\ \E c \in Categories, x \in Contents, m \in MetaInputs,
             fault \in {"none", "add"}, dupRaises \in BOOLEAN :
             Create(c, x, m, fault, dupRaises)
    \/ /\ last = Idle
       /\ \E c \in Categories, id \in IdInputs : DeleteMemory(c, id, FALSE)
    \/ Return

SpecCreate == Init /\ [][NextCreate]_vars

\* ---------------------------------------------------------------- restart
\* A new MemoryManager (and VectorStore) is constructed over the database.
Restart(listFails, failing) ==
    /\ last = Idle
    /\ collections' = VectorStore_init(Store, listFails, failing).collections
    /\ last' = [op |-> "restart", listFails |-> listFails, failing |-> failing]
    /\ epoch_number' = 1
    /\ UNCHANGED <<persisted, docs, split, adds, bot>>

\* The operations that change the mapping or the index, and restarts.
NextRestart ==
    \/ /\ last = Idle
       /\ \E c \in Categories, x \in Contents,
             fault \in {"none", "create_collection", "get", "add"},
             dupRaises \in BOOLEAN :
             Create(c, x, EmptyDict, fault, dupRaises)
    \/ /\ last = Idle
       /\ \E c \in Categories, id \in IdInputs, fault \in BOOLEAN :
             DeleteMemory(c, id, fault)
    \/ /\ last = Idle
       /\ \E c \in Categories, fault \in BOOLEAN : RemoveCategory(c, fault)
    \/ /\ last = Idle
       /\ \E c \in Categories, fault \in BOOLEAN : WipeCategory(c, fault)
    \/ /\ last = Idle
       /\ \E failing \in SUBSET Categories : WipeAllMemories(failing)
    \/ /\ last = Idle
       /\ \E listFails \in BOOLEAN, failing \in SUBSET Categories :
             Restart(listFails, failing)
    \/ Return

SpecRestart == Init /\ [][NextRestart]_vars

\* ------------------------------------------------------------------ epochs
\* The number of increments followed.
MaxEpoch == 3

\* increment_epoch, as the specification describes it (manager.py defines no
\* such method and keeps no epoch): the counter advances by one.
IncrementEpoch ==
    /\ last = Idle
    /\ epoch_number < MaxEpoch
    /\ epoch_number' = epoch_number + 1
    /\ last' = [op |-> "increment_epoch", epoch_number |-> epoch_number + 1]
    /\ UNCHANGED <<collections, persisted, docs, split, adds, bot>>

\* Creations between increments of the epoch.
NextEpoch ==
    \/ /\ last = Idle
       /\ \E c \in Categories, x \in Contents, m \in MetaInputs :
             Create(c, x, m, "none", TRUE)
    \/ IncrementEpoch
    \/ Return

SpecEpoch == Init /\ [][NextEpoch]_vars


\* ------------------------------------------------------- split_document
\* The longest text, the largest chunk size and the most chunks followed.
MaxLen == 3
MaxChunkSize == 2
MaxSections == 4

TextInputs == UNION {[1..n -> Alphabet] : n \in 0..MaxLen}
ChunkSizeInputs == 1..MaxChunkSize
OverlapInputs == {0, 1, DefaultChunkOverlap}

\* Of the call in progress, split also keeps, for the section in the chunk
\* loop, the number of chunks appended (emitted) and the position in the
\* content at which the last of them ends (covered).

\* The section the call is working on.
CurrentSection == split.coarse[split.idx]

\* split_document is called: the coarse sections are computed.
SplitDocument(text, chunk_size, chunk_overlap, respect_boundaries) ==
    /\ last = Idle
    /\ split = NoSplit
    /\ split' = [pc |-> "section", text |-> text, chunk_size |-> chunk_size,
                 chunk_overlap |-> chunk_overlap,
                 respect_boundaries |-> respect_boundaries,
                 coarse |-> coarse_sections(text), idx |-> 1, start |-> 0,
                 sections |-> <<>>, emitted |-> 0, covered |-> 0]
    /\ UNCHANGED <<collections, persisted, docs, last, epoch_number, adds, bot>>

\* "for section in coarse_sections": a short section is kept as one chunk,
\* a longer one enters the chunk loop; after the last section the call
\* returns.
SplitSection ==
    /\ split.pc = "section"
    /\ split' =
          IF split.idx > Len(split.coarse)
          THEN [split EXCEPT !.pc = "done"]
          ELSE IF Len(CurrentSection.content) <= split.chunk_size
          THEN [split EXCEPT
                  !.sections = Append(@, [header |-> CurrentSection.header,
                                          content |-> strip(CurrentSection.content)]),
                  !.idx = @ + 1]
          ELSE [split EXCEPT !.pc = "chunk", !.start = 0,
                             !.emitted = 0, !.covered = 0]
    /\ UNCHANGED <<collections, persisted, docs, last, epoch_number, adds, bot>>

\* "while start < len(content)": one iteration, or the loop's exit.
SplitChunk ==
    /\ split.pc = "chunk"
    /\ Len(split.sections) < MaxSections
    /\ LET content == CurrentSection.content
           end == chunk_end(content, split.start, split.chunk_size,
                            split.respect_boundaries)
           chunk_content == strip(slice(content, split.start, end))
       IN split' =
             IF split.start >= Len(content)
             THEN [split EXCEPT !.pc = "section", !.idx = @ + 1]
             ELSE [split EXCEPT
                     !.sections = IF chunk_content # <<>>
                                  THEN Append(@, [header |-> CurrentSection.header,
                                                  content |-> chunk_content])
                                  ELSE @,
                     !.emitted = IF chunk_content # <<>> THEN @ + 1 ELSE @,
                     !.covered = IF chunk_content # <<>>
                                 THEN Min(end, Len(content)) ELSE @,
                     !.start = next_start(end, split.chunk_overlap)]
    /\ UNCHANGED <<collections, persisted, docs, last, epoch_number, adds, bot>>

\* "return sections"
SplitReturn ==
    /\ split.pc = "done"
    /\ split' = NoSplit
    /\ UNCHANGED <<collections, persisted, docs, last, epoch_number, adds, bot>>

NextSplit ==
    \/ /\ split = NoSplit
       /\ \E text \in TextInputs, c \in ChunkSizeInputs, o \in OverlapInputs,
             b \in BOOLEAN :
             SplitDocument(text, c, o, b)
    \/ SplitSection
    \/ SplitChunk
    \/ SplitReturn

SpecSplit == Init /\ [][NextSplit]_vars

\* Texts long enough for a boundary to lie at the edge of the search window:
\* a run of letters, then a sentence end, a blank line or more letters, then
\* a short tail.
Run(ch, n) == [i \in 1..n |-> ch]

LongTextInputs ==
    {Run("a", p) \o sep \o Run("a", q) :
        p \in (BoundaryWindow - 3)..(BoundaryWindow + MaxLen),
        sep \in {<<".", " ">>, <<"\n", "\n">>, <<"a", "a">>},
        q \in 0..MaxLen}

NextSplitLong ==
    \/ /\ split = NoSplit
       /\ \E text \in LongTextInputs, c \in ChunkSizeInputs, o \in OverlapInputs,
             b \in BOOLEAN :
             SplitDocument(text, c, o, b)
    \/ SplitSection
    \/ SplitChunk
    \/ SplitReturn

SpecSplitLong == Init /\ [][NextSplitLong]_vars

\* Texts made of whole lines: plain text, headings of level one and two,
\* upper-case lines of five and of four letters, and the empty line.
MaxLines == 2

LineInputs ==
    {<<"a">>, <<"#", " ", "a">>, <<"#", "#", " ", "a">>, Run("A", 5),
     Run("A", 4), <<>>}

LinedTextInputs ==
    {join_lines(lines) : lines \in UNION {[1..n -> LineInputs] : n \in 1..MaxLines}}

NextSplitLines ==
    \/ /\ split = NoSplit
       /\ \E text \in LinedTextInputs,
             c \in ChunkSizeInputs \cup {DefaultChunkSize}, b \in BOOLEAN :
             SplitDocument(text, c, 0, b)
    \/ SplitSection
    \/ SplitChunk
    \/ SplitReturn

SpecSplitLines == Init /\ [][NextSplitLines]_vars

\* A call that has started keeps running: each step of the method is taken.
SpecSplitFair ==
    /\ Init
    /\ [][NextSplit]_vars
    /\ WF_vars(SplitSection)
    /\ WF_vars(SplitChunk)
    /\ WF_vars(SplitReturn)

RECURSIVE ChunksOf(_)
\* The chunks a batch holds: what it needs of the store's capacity.
ChunksOf(files) ==
    IF files = <<>> THEN 0
    ELSE (IF Head(files).exists
          THEN Len(split_document_short(Head(files).text, DefaultChunkSize))
          ELSE 0) + ChunksOf(Tail(files))

UploadDocuments(files, category, failAt) ==
    /\ last = Idle
    /\ UNCHANGED others
    /\ TotalMem(Store) + ChunksOf(files) <= MaxMem
    /\ LET r == MemoryManager_upload_documents(Store, files, category, failAt)
       IN /\ collections' = r.st.collections
          /\ persisted' = r.st.persisted
          /\ docs' = r.st.docs
          /\ last' = [op |-> "upload_documents", category |-> category,
                      files |-> files, failAt |-> failAt,
                      raised |-> r.raised, counts |-> r.counts,
                      pre |-> docs[category]]

\* The batches: one file or two.
BatchInputs ==
    {<<f>> : f \in FileInputs} \cup {<<f, g>> : f, g \in FileInputs}

\* Uploads, and the wipes that make room again.
NextUpload ==
    \/ /\ last = Idle
       /\ \E files \in BatchInputs, c \in Categories, failAt \in 0..MaxMem :
             UploadDocuments(files, c, failAt)
    \/ /\ last = Idle
       /\ \E c \in Categories : WipeCategory(c, FALSE)
    \/ Return

SpecUpload == Init /\ [][NextUpload]_vars


\* ------------------------------------------------------------------ claims

DocFilenames(records) == {doc_filename(records[i]) : i \in 1..Len(records)}

HasFilename(record, filename) ==
    /\ "original_filename" \in DOMAIN record.metadata
    /\ record.metadata["original_filename"] = filename

\* C1: memory ids are unique within a category: every create returns an id
\* that no memory live in the category at the moment of the call has, and no
\* two live memories of a category share an id.
C1_CreateReturnsFreshId ==
    /\ (last.op = "create" /\ ~last.raised) =>
            last.memory.id \notin Ids(last.pre)
    /\ \A c \in Categories : \A i, j \in 1..Len(docs[c]) :
            docs[c][i].id = docs[c][j].id => i = j

\* C2: round trip: fetching a memory right after its creation by (category,
\* returned id) gives the same content, and metadata holding every key and
\* value the caller passed plus a timestamp and an epoch.
C2_CreateThenGetRoundTrip ==
    (last.op = "create" /\ ~last.raised) =>
        LET m == VectorStore_get(Store, last.category, last.memory.id)
        IN /\ m # NoMemory
           /\ m.content = last.content
           /\ \A k \in DOMAIN last.metadata :
                 k \in DOMAIN m.metadata /\ m.metadata[k] = last.metadata[k]
           /\ "timestamp" \in DOMAIN m.metadata
           /\ "epoch" \in DOMAIN m.metadata

\* C3: what MemoryManager.search returns is sorted by non-increasing
\* similarity_score, holds no result with similarity_score <= min_similarity,
\* and has at most n_results entries.
C3_SearchSortedFilteredBounded ==
    last.op = "search" =>
        /\ \A i \in 1..(Len(last.results) - 1) :
              last.results[i].similarity_score
                 >= last.results[i + 1].similarity_score
        /\ \A i \in 1..Len(last.results) :
              last.results[i].similarity_score > last.min_similarity
        /\ Len(last.results) <= last.n_results

\* A search that returned two results of different scores.
C3_Witness ==
    /\ last.op = "search"
    /\ Len(last.results) = 2
    /\ last.results[1].similarity_score > last.results[2].similarity_score

\* C4: search on a category that does not exist, or that holds no memories,
\* returns the empty sequence and does not raise, at VectorStore.search and
\* at MemoryManager.search.
C4_SearchMissingOrEmptyCategory ==
    /\ (/\ last.op = "store_search"
        /\ \/ last.category \notin Range(collections)
           \/ docs[last.category] = <<>>)
          => (~last.raised /\ last.results = <<>>)
    /\ (/\ last.op = "search"
        /\ last.category.kind = "name"
        /\ \/ last.category.name \notin Range(collections)
           \/ docs[last.category.name] = <<>>)
          => (~last.raised /\ last.results = <<>>)

\* A search of a category that exists and is empty while the store holds
\* memories elsewhere.
C4_Witness ==
    /\ last.op \in {"store_search", "search"}
    /\ LET c == IF last.op = "search"
                THEN (IF last.category.kind = "name"
                      THEN last.category.name ELSE "none")
                ELSE last.category
       IN /\ c \in Range(collections)
          /\ docs[c] = <<>>
    /\ TotalMem(Store) > 0
    /\ last.n_results > 0

\* The categories the claim lets a search look into.
C5_Resolved ==
    IF last.category.kind = "none" THEN Range(collections)
    ELSE IF last.category.kind = "name"
         THEN {last.category.name} \cap Range(collections)
    ELSE Range(last.category.names) \cap Range(collections)

\* C5: every result of MemoryManager.search is a memory of a resolved
\* category: absent means all known categories, a name that category if it
\* is known, a list the listed names that are known.
C5_SearchStaysInResolvedCategories ==
    last.op = "search" =>
        \A i \in 1..Len(last.results) :
            LET m == last.results[i].memory
            IN /\ m.category \in C5_Resolved
               /\ \E j \in 1..Len(docs[m.category]) :
                     /\ docs[m.category][j].id = m.id
                     /\ docs[m.category][j].content = m.content

\* A search by name that returned a result while the other category holds
\* a memory too.
C5_Witness ==
    /\ last.op = "search"
    /\ last.category.kind = "name"
    /\ last.results # <<>>
    /\ \E c \in Categories \ {last.category.name} : docs[c] # <<>>

\* C6: wipe_document deletes every memory of the category whose
\* original_filename is the filename, returns the number it deleted, and
\* returns 0 only when no memory of the category carries that filename.
C6_WipeDocumentDeletesTheDocument ==
    last.op = "wipe_document" =>
        /\ \A i \in 1..Len(docs[last.category]) :
              ~HasFilename(docs[last.category][i], last.filename)
        /\ last.chunks_deleted = Len(last.pre) - Len(docs[last.category])
        /\ last.chunks_deleted = 0 =>
              \A i \in 1..Len(last.pre) : ~HasFilename(last.pre[i], last.filename)

RECURSIVE SumChunkCounts(_)
SumChunkCounts(documents) ==
    IF documents = <<>> THEN 0
    ELSE Head(documents).chunk_count + SumChunkCounts(Tail(documents))

\* C8: get_category_stats reports total_chunks = the number of memories of
\* the category, document_count = the number of distinct original_filename
\* values among them (memories without one counted as one document), and
\* chunk counts that sum to total_chunks.
C8_StatsCountTheCategory ==
    last.op = "get_category_stats" =>
        /\ last.stats.total_chunks = Len(docs[last.category])
        /\ last.stats.document_count =
              Cardinality(DocFilenames(docs[last.category]))
        /\ SumChunkCounts(last.stats.documents) = last.stats.total_chunks

\* C9: wipe_category returning success true has removed the category from
\* list_categories with all its memories, and reports as chunks_deleted and
\* documents_deleted the memories and the distinct documents the category
\* held before the call.
C9_WipeCategoryReportsWhatItDeleted ==
    (last.op = "wipe_category" /\ last.success = "True") =>
        /\ last.category \notin Range(collections)
        /\ docs[last.category] = <<>>
        /\ last.chunks_deleted = Len(last.pre)
        /\ last.documents_deleted = Cardinality(DocFilenames(last.pre))

\* C10: wipe_all_memories returns false if the deletion of any category
\* raised, and true only when every category known at the start of the call
\* has been deleted.
C10_WipeAllReportsFailure ==
    last.op = "wipe_all_memories" =>
        /\ last.raised_for # {} => last.ret = FALSE
        /\ last.ret = TRUE =>
              \A c \in Range(last.preCategories) : c \notin Range(collections)

\* C11: when no index call fails, wipe_all_memories leaves list_categories
\* empty, and no memory of a former category can be fetched afterwards.
C11_WipeAllLeavesNothing ==
    (last.op = "wipe_all_memories" /\ last.raised_for = {}) =>
        /\ MemoryManager_list_categories(Store) = <<>>
        /\ \A c \in Range(last.preCategories) :
              /\ docs[c] = <<>>
              /\ \A id \in IdInputs : VectorStore_get(Store, c, id) = NoMemory

\* wipe_all_memories has returned, without a failure, on a store of two
\* categories.
C11_Witness ==
    /\ last.op = "wipe_all_memories"
    /\ last.raised_for = {}
    /\ Range(last.preCategories) = {"a", "b"}

\* The files of a batch that exist.
ExistingIn(files) == SelectSeq(files, LAMBDA f : f.exists)

\* C12: upload_documents never raises because of a failing file, goes on
\* with the files after a failed one, and returns total_attempted = the
\* number of paths = successful + failed; a batch of one missing file gives
\* 1, 0, 1, 0.
C12_UploadIsBestEffort ==
    last.op = "upload_documents" =>
        /\ ~last.raised
        /\ last.counts.total_attempted = Len(last.files)
        /\ last.counts.total_attempted
              = last.counts.successful + last.counts.failed
        /\ last.failAt = 0 =>
              last.counts.successful = Len(ExistingIn(last.files))
        /\ (Len(last.files) = 1 /\ ~last.files[1].exists) =>
              last.counts = [total_attempted |-> 1, successful |-> 0,
                             failed |-> 1, total_chunks |-> 0]

\* A batch whose first file is missing and whose second file was stored.
C12_Witness ==
    /\ last.op = "upload_documents"
    /\ Len(last.files) = 2
    /\ ~last.files[1].exists
    /\ last.counts.successful = 1
    /\ last.counts.failed = 1
    /\ Len(docs[last.category]) > Len(last.pre)

\* C13: the epoch starts at 1, N increments give epoch_number = 1 + N, and a
\* memory created after the k-th increment carries epoch = k + 1 in its
\* metadata next to its timestamp.
C13_CreatedMemoryCarriesEpoch ==
    /\ epoch_number >= 1
    /\ last.op = "increment_epoch" => epoch_number = last.epoch_number
    /\ (last.op = "create" /\ ~last.raised) =>
          /\ "timestamp" \in DOMAIN last.memory.metadata
          /\ "epoch" \in DOMAIN last.memory.metadata
          /\ last.memory.metadata["epoch"] = ToString(epoch_number)

\* C14: split_document returns only chunks that are non-empty after
\* trimming, and with respect_boundaries = false no chunk is longer than the
\* chunk size.
C14_ChunksNonEmptyAndBounded ==
    split.pc = "done" =>
        \A i \in 1..Len(split.sections) :
            /\ strip(split.sections[i].content) # <<>>
            /\ ~split.respect_boundaries =>
                  Len(split.sections[i].content) <= split.chunk_size

\* The records of a collection as the memories a read returns.
AsMemories(records, category) ==
    [i \in 1..Len(records) |->
        [id |-> records[i].id, content |-> records[i].content,
         category |-> category, metadata |-> records[i].metadata]]

\* C15: get_recent returns at most n_results memories of the category, the
\* most recently inserted first and the rest in decreasing recency, whatever
\* the size of the collection; for an unknown category it returns <<>>.
C15_GetRecentMostRecentFirst ==
    (last.op = "get_recent" /\ ~last.fault) =>
        IF last.category \notin Range(collections)
        THEN last.memories = <<>>
        ELSE LET newestFirst == Reverse(AsMemories(docs[last.category],
                                                   last.category))
             IN last.memories =
                   SubSeq(newestFirst, 1, Min(last.n_results, Len(newestFirst)))

\* C16: when the index raises during search or get_recent, no exception
\* reaches the caller and the call returns the empty sequence.
C16_ReadPathsDegradeToEmpty ==
    /\ (last.op = "store_search" /\ last.fault) =>
          ~last.raised /\ last.results = <<>>
    /\ last.op = "search" => ~last.raised
    /\ (last.op = "get_recent" /\ last.fault) =>
          ~last.raised /\ last.memories = <<>>

\* C17: delete never raises and returns true only if the memory existed
\* before the call and is absent after it: it returns false for an unknown
\* category, for an id the category does not hold, and when the index raises.
C17_DeleteReportsWhatItDeleted ==
    (last.op = "delete_memory" /\ last.ok) =>
        /\ last.category \in Range(last.preCategories)
        /\ last.id \in Ids(last.pre)
        /\ last.id \notin Ids(docs[last.category])

\* The record with the given id among records, as a set (empty or one).
RecordsWithId(records, id) == {records[i] : i \in {j \in 1..Len(records) : records[j].id = id}}

\* C18: update changes only what is supplied: without content the memory's
\* content stays, without metadata its metadata stays, with neither nothing
\* changes and the call returns true; no update changes another memory, and
\* none returns true for an unknown category.
C18_UpdateChangesOnlyWhatIsSupplied ==
    last.op = "update" =>
        LET c == last.category
            before == RecordsWithId(last.preDocs[c], last.id)
            after == RecordsWithId(docs[c], last.id)
        IN /\ \A k \in Categories :
                 /\ Len(docs[k]) = Len(last.preDocs[k])
                 /\ \A i \in 1..Len(docs[k]) :
                       (k # c \/ last.preDocs[k][i].id # last.id) =>
                           docs[k][i] = last.preDocs[k][i]
           /\ last.content = PyNone =>
                 {r.content : r \in after} = {r.content : r \in before}
           /\ last.metadata = EmptyDict =>
                 {r.metadata : r \in after} = {r.metadata : r \in before}
           /\ (last.content = PyNone /\ last.metadata = EmptyDict) =>
                 /\ docs = last.preDocs
                 /\ c \in Range(collections) => last.ok
           /\ c \notin Range(last.preCategories) =>
                 ~last.ok /\ docs = last.preDocs

\* A metadata-only update that changed the metadata of a stored memory.
C18_Witness ==
    /\ last.op = "update"
    /\ last.ok
    /\ last.content = PyNone
    /\ last.metadata # EmptyDict
    /\ docs # last.preDocs

\* C19: after construction and after every create, delete_memory,
\* remove_category, wipe_category and wipe_all_memories, also when an index
\* call fails, the names of the in-memory mapping are exactly the collections
\* persisted in the index, each name once.
C19_CacheMatchesIndex ==
    /\ Range(collections) = persisted
    /\ Cardinality(Range(collections)) = Len(collections)

\* The operations that remove a category.
RemovingOps == {"remove_category", "wipe_category", "wipe_all_memories"}

\* C20: a category stays listed until it is removed: no step of create,
\* search, get_memories, update, delete_memory or wipe_document takes a name
\* out of list_categories, also when delete_memory removes the category's
\* last memory; only remove_category, wipe_category and wipe_all_memories do.
C20_CategoryStaysListed ==
    [][\/ last'.op \in RemovingOps
       \/ Range(MemoryManager_list_categories(Store))
            \subseteq Range(MemoryManager_list_categories(Store)')]_vars

\* delete_memory removed the last memory of a category that is still listed.
C20_Witness ==
    /\ last.op = "delete_memory"
    /\ last.ok
    /\ last.pre # <<>>
    /\ docs[last.category] = <<>>
    /\ last.category \in Range(MemoryManager_list_categories(Store))

\* The whitespace-separated tokens of a query: the positions where a token
\* starts.
TokenStarts(query) ==
    {i \in 1..Len(query) :
        query[i] \notin Whitespace /\ (i = 1 \/ query[i - 1] \in Whitespace)}

\* C21: get_relevant_context returns the empty context and no results,
\* without searching, for a query of at most 3 tokens; for a longer query it
\* returns the results of the search over all categories, at most n_results
\* of them, and the context is empty exactly when there are no results.
C21_RelevantContext ==
    last.op = "get_relevant_context" =>
        IF Cardinality(TokenStarts(last.query)) <= 3
        THEN last.context = "" /\ last.results = <<>> /\ ~last.searched
        ELSE /\ last.searched
             /\ last.results =
                   MemoryManager_search(Store, Str(last.query), NoCategory,
                                        last.n_results, DefaultMinSimilarity,
                                        EmptyDict, {}).results
             /\ Len(last.results) <= last.n_results
             /\ last.context = "" <=> last.results = <<>>

\* A query of four tokens that found memories and was given their context.
C21_Witness ==
    /\ last.op = "get_relevant_context"
    /\ Cardinality(TokenStarts(last.query)) = 4
    /\ last.results # <<>>
    /\ last.context # ""

\* C22: split_document terminates for every text, every chunk_size >= 1 and
\* every chunk_overlap with 0 <= chunk_overlap < chunk_size, in both boundary
\* modes: every such call reaches its return.
C22_SplitTerminates ==
    [](((split.pc \in {"section", "chunk"})
          /\ split.chunk_overlap < split.chunk_size)
       => <>(split.pc = "done"))

\* C23: with respect_boundaries = true no chunk of split_document is longer
\* than chunk_size + 50, whatever the text, chunk_size and chunk_overlap,
\* also when chunk_size is below 50 and the window's lower end is negative.
C23_BoundaryChunksBounded ==
    (split.pc # "none" /\ split.respect_boundaries) =>
        \A i \in 1..Len(split.sections) :
            Len(split.sections[i].content) <= split.chunk_size + 50

\* A returned chunk that a sentence end made longer than the chunk size: it
\* ends at the last boundary the window reaches.
C23_Witness ==
    /\ split.pc = "done"
    /\ split.respect_boundaries
    /\ split.chunk_size < 50
    /\ \E i \in 1..Len(split.sections) :
          Len(split.sections[i].content) = split.chunk_size + 49

\* C29: within a section longer than chunk_size, with 0 <= chunk_overlap <
\* chunk_size, every chunk emitted after the first covers a position beyond
\* the end of the chunk emitted before it: none lies wholly inside its
\* predecessor.
C29_NoRedundantChunk ==
    [][(/\ split.pc = "chunk"
        /\ split'.pc = "chunk"
        /\ split.chunk_overlap < split.chunk_size
        /\ split.emitted > 0
        /\ split'.emitted > split.emitted)
       => split'.covered > split.covered]_vars

\* A header line as the claim describes it: a run of # followed by a blank
\* (a heading of any level), or upper-case letters only and more than 4.
ClaimedHeader(line) ==
    LET stripped == strip(line)
        rest == lstrip(stripped, {"#"})
    IN \/ Len(rest) < Len(stripped) /\ rest # <<>> /\ rest[1] = " "
       \/ Len(stripped) > 4 /\ \A i \in 1..Len(stripped) : stripped[i] = "A"

\* The text of a header line: the line without its marker and blanks.
ClaimedHeaderText(line) == Str(strip(lstrip(strip(line), {"#"})))

\* C24: a line is a header if it starts with a # marker of any level or is
\* upper-case and longer than 4 characters; each header line starts a new
\* section with that line's text as header, the content before the first
\* header has no header, and the sections come in source order.
C24_CoarseSegmentation ==
    split.pc # "none" =>
        LET lines == splitlines(split.text)
            headerLines == SelectSeq(lines, ClaimedHeader)
            expected ==
                (IF lines # <<>> /\ ~ClaimedHeader(lines[1])
                 THEN <<PyNone>> ELSE <<>>)
                \o [i \in 1..Len(headerLines) |-> ClaimedHeaderText(headerLines[i])]
        IN /\ [i \in 1..Len(split.coarse) |-> split.coarse[i].header] = expected
           /\ join_lines([i \in 1..Len(split.coarse) |-> split.coarse[i].content])
                 = join_lines(lines)

\* C25: when the index's add raises during create, the error reaches the
\* caller and the store is as before the call: no memory is added and
\* list_categories is unchanged, also for a category that did not exist.
C25_FailedAddLeavesStoreUnchanged ==
    (last.op = "create" /\ last.raised) =>
        /\ MemoryManager_list_categories(Store) = last.preCategories
        /\ docs[last.category] = last.pre

\* The memories a search may return: those of the resolved categories that
\* match the filter and score above min_similarity, each with its score.
Qualifying ==
    LET resolved == Range(resolve_categories(MemoryManager_list_categories(Store),
                                             last.category))
    IN {[category |-> c, id |-> docs[c][i].id,
         score |-> similarity_score(Distance(last.query, docs[c][i].content))] :
          <<c, i>> \in {ci \in resolved \X (1..MaxMem + 1) :
                          /\ ci[2] <= Len(docs[ci[1]])
                          /\ Matches(docs[ci[1]][ci[2]].metadata, last.filter_metadata)
                          /\ similarity_score(Distance(last.query,
                                 docs[ci[1]][ci[2]].content)) > last.min_similarity}}

\* The results of the last search, as category, id and score.
Returned ==
    [i \in 1..Len(last.results) |->
        [category |-> last.results[i].memory.category,
         id |-> last.results[i].memory.id,
         score |-> last.results[i].similarity_score]]

\* C26: for every store and category argument, search returns exactly the
\* n_results highest-scoring qualifying memories of the resolved categories
\* (all of them if fewer qualify), each at most once.
C26_FanOutEqualsGlobalRanking ==
    last.op = "search_query" =>
        /\ Len(Returned) = Min(last.n_results, Cardinality(Qualifying))
        /\ Cardinality(Range(Returned)) = Len(Returned)
        /\ Range(Returned) \subseteq Qualifying
        /\ \A q \in Qualifying \ Range(Returned) :
              \A i \in 1..Len(Returned) : Returned[i].score >= q.score

\* C27: the total_chunks that upload_documents reports is the number of
\* memories the call added to the store: a file counted as failed leaves no
\* memory behind, also when create_chunks fails after some of its chunks
\* were created.
C27_TotalChunksIsWhatWasAdded ==
    last.op = "upload_documents" =>
        Len(docs[last.category]) - Len(last.pre) = last.counts.total_chunks

\* C28: when two create calls on one category interleave, both memories end
\* up stored under distinct ids and neither call fails; two interleaved
\* first writes to a new category both succeed, with one collection.
C28_InterleavedCreatesBothStored ==
    /\ \A t \in Callers : adds[t].pc # "raised"
    /\ \A t \in Callers :
          adds[t].pc = "done" =>
              \E i \in 1..Len(docs[adds[t].category]) :
                  /\ docs[adds[t].category][i].id = adds[t].id
                  /\ docs[adds[t].category][i].content = adds[t].content
    /\ \A t, u \in Callers :
          (t # u /\ adds[t].pc = "done" /\ adds[u].pc = "done"
             /\ adds[t].category = adds[u].category) => adds[t].id # adds[u].id
    /\ Cardinality(Range(collections)) = Len(collections)

\* C30: after any sequence of start_bot and stop_bot calls at most one
\* thread is in a poll cycle, and a thread told to stop never starts another
\* poll cycle.
C30_AtMostOnePollingThread ==
    /\ [](Cardinality({t \in Threads : bot.threads[t] = "poll"}) <= 1)
    /\ [][\A t \in Threads :
             (t \in bot.stopped /\ bot.threads[t] = "test")
               => bot'.threads[t] # "poll"]_vars

====
